---- MODULE Spec2Model ----
(***************************************************************************)
(* BatchTorchAsrModel (runtime/core/decoder/batch_torch_asr_model.cc):     *)
(* the batched encoder forward and the attention rescoring of an N-best    *)
(* list, with the executor's member encoder_out_ as the state the two      *)
(* operations share.                                                       *)
(*                                                                         *)
(* Numbers.  Log-probabilities are integers (<= 0).  reverse_weight is the *)
(* rational w / WeightDen with w in 0..WeightDen, and every rescoring      *)
(* score is kept multiplied by WeightDen, so that                          *)
(*   score * (1 - reverse_weight) + r_score * reverse_weight               *)
(* is the integer score * (WeightDen - w) + r_score * w.  Rounding of      *)
(* float arithmetic is not modelled.                                       *)
(*                                                                         *)
(* Indexing.  std::vector values are sequences (1-based: the C++ v[j] is   *)
(* v[j + 1]); tensors are functions over 0..n-1, as in the source.         *)
(***************************************************************************)
EXTENDS Integers, Sequences, FiniteSets, TLC

\* ----------------------------------------------------------------- bounds
MaxHypLen == 2      \* tokens in one hypothesis
MaxBatch == 2       \* utterances in one batch
WeightDen == 2      \* reverse_weight ranges over 0/WeightDen .. WeightDen/WeightDen
NumSessions == 2    \* sessions (threads) of the shared-executor specification
MaxGarbageLen == 3  \* length of the longest score vector a caller passes in

\* ------------------------------------------------------ model metadata
sos_ == 3
eos_ == 3
Tokens == {1, 2}
Vocab == 0..3
Feats == {1, 2}     \* identities of the feature batches a caller submits
Sessions == 1..NumSessions
ReverseWeights == 0..WeightDen
Garbage == {0, -1}  \* scores that reads outside a tensor's storage may produce

NBestSizes == {0, 1, 2}     \* hypotheses in one N-best list
HypSet == UNION {[1..k -> Tokens] : k \in 0..MaxHypLen}
NBestSet == UNION {[1..n -> HypSet] : n \in NBestSizes}
\* score vectors a caller may pass in: empty, or filled with stale values
PrevScores == {<<>>, <<-9>>, [k \in 1..MaxGarbageLen |-> -9 - k]}

VARIABLES
    encoder_arity,              \* elements of the tuple the model's encoder op returns
    is_bidirectional_decoder_,  \* member, set by Read()
    encoder_out_,               \* member: the (B, Tmax, dim) tensor of the last forward
    aborted,                    \* a CHECK failed: the process is gone
    pc,                         \* per session: "idle", or "ctc" inside ForwardEncoderFunc
    own,                        \* per session: the batch of its last ForwardEncoderFunc
                                \*   and the utterance of it to rescore next
    out_prob,                   \* per session: the out-parameter of ForwardEncoderFunc
    rescoring_score,            \* per session: the out-parameter of AttentionRescoring
    call                        \* the last AttentionRescoring call, as it ran

vars == <<encoder_arity, is_bidirectional_decoder_, encoder_out_, aborted, pc, own,
          out_prob, rescoring_score, call>>

\* ---------------------------------------------------------------- tensors
NoTensor == <<>>                       \* a default-constructed torch::Tensor
Size0(t) == Cardinality(DOMAIN t)
Size1(t) == IF 0 \in DOMAIN t THEN Cardinality(DOMAIN t[0]) ELSE 0
Zeros(n, m) == [i \in 0..(n - 1) |-> [j \in 0..(m - 1) |-> 0]]
\* t[i][j] = v
SetAt(t, i, j, v) ==
    IF i \in DOMAIN t /\ j \in DOMAIN t[i] THEN [t EXCEPT ![i][j] = v] ELSE t
\* t.index({Slice(lo, hi)}): rows lo..hi-1, clamped to the rows t has
Slice(t, lo, hi) ==
    LET top == IF hi < Size0(t) THEN hi ELSE Size0(t)
        n == IF top > lo THEN top - lo ELSE 0
    IN [i \in 0..(n - 1) |-> t[lo + i]]
Max(a, b) == IF a < b THEN b ELSE a

\* ------------------------------------------------- the TorchScript model
\* Row b of the encoder output of the batch with features f.
EncoderRow(f, b) == f * 10 + b
EncoderOut(f, batch_size) == [b \in 0..(batch_size - 1) |-> EncoderRow(f, b)]
CtcRow(row) == 100 + row
\* ctc_activation(enc_out): one CTC log-probability block per row
CtcActivation(enc_out) == [b \in DOMAIN enc_out |-> CtcRow(enc_out[b])]
\* forward_encoder_batch(feats, feats_lens): a tuple of encoder_arity elements
ForwardEncoderBatch(f, batch_size, arity) ==
    LET enc == EncoderOut(f, batch_size)
        lens == [b \in 0..(batch_size - 1) |-> 1]
    IN IF arity = 2 THEN <<enc, lens>> ELSE <<enc, lens, CtcActivation(enc)>>

RECURSIVE PrefixSum(_, _)
PrefixSum(row, j) == IF j < 0 THEN 0 ELSE row[j] + PrefixSum(row, j - 1)
\* log-probability of token v after the first j+1 input tokens of row, given enc
LogP(enc, row, j, v, dir) ==
    0 - (1 + ((enc * 7 + PrefixSum(row, j) * 11 + j * 3 + v * 5 + dir * 2) % 13))
\* the row with its tokens (after sos, up to its length) in reverse order
ReversedRow(row, len) ==
    [j \in DOMAIN row |-> IF j >= 1 /\ j < len THEN row[len - j] ELSE row[j]]
\* forward_attention_decoder asserts one encoder row
DecoderAccepts(encoder_out) == Size0(encoder_out) = 1
\* forward_attention_decoder(hyps, hyps_lens, encoder_out, reverse_weight):
\* <<logp_L2R (N, L, V), logp_R2L (N, L, V) or an empty tensor>>
ForwardAttentionDecoder(hyps_tensor, hyps_length, encoder_out, reverse_weight, bidir) ==
    LET probs == [i \in DOMAIN hyps_tensor |-> [j \in DOMAIN hyps_tensor[i] |->
                    [v \in Vocab |-> LogP(encoder_out[0], hyps_tensor[i], j, v, 0)]]]
        r_probs == [i \in DOMAIN hyps_tensor |-> [j \in DOMAIN hyps_tensor[i] |->
                    [v \in Vocab |->
                        LogP(encoder_out[0], ReversedRow(hyps_tensor[i], hyps_length[i]),
                             j, v, 1)]]]
    IN <<probs, IF bidir /\ reverse_weight > 0 THEN r_probs ELSE NoTensor>>

\* ------------------------------------------------------ ForwardEncoderFunc
\* The member after `encoder_out_ = outputs[0].toTensor()`.
StoreEncoderOut(outputs) == outputs[1]

\* Lines 101-130: run the encoder op, CHECK the tuple's size, store the member.
ForwardEncoderFunc_Encode(s, f, batch_size) ==
    LET outputs == ForwardEncoderBatch(f, batch_size, encoder_arity)
    IN /\ ~aborted
       /\ pc[s] = "idle"
       /\ ~(call.done /\ call.s = s)
       /\ IF Len(outputs) # 2
          THEN /\ aborted' = TRUE
               /\ UNCHANGED <<encoder_out_, pc, own>>
          ELSE /\ encoder_out_' = StoreEncoderOut(outputs)
               /\ pc' = [pc EXCEPT ![s] = "ctc"]
               /\ own' = [own EXCEPT ![s] = [feats |-> f, rows |-> batch_size, next |-> 0]]
               /\ UNCHANGED aborted
       /\ UNCHANGED <<encoder_arity, is_bidirectional_decoder_, out_prob,
                      rescoring_score, call>>

\* Lines 133-150: ctc_activation on the member, copied row by row to out_prob.
\* ctc_log_probs[i] of a row the tensor does not have throws: the rows copied
\* before it stay, the others stay as resize() left them.
CopyCtc(ctc_log_probs, batch_size) ==
    [i \in 0..(batch_size - 1) |->
        IF \A k \in 0..i : k \in DOMAIN ctc_log_probs THEN ctc_log_probs[i] ELSE 0]

ForwardEncoderFunc_Ctc(s) ==
    LET ctc_log_probs == CtcActivation(encoder_out_)
    IN /\ ~aborted
       /\ pc[s] = "ctc"
       /\ out_prob' = [out_prob EXCEPT ![s] = CopyCtc(ctc_log_probs, own[s].rows)]
       /\ pc' = [pc EXCEPT ![s] = "idle"]
       /\ UNCHANGED <<encoder_arity, is_bidirectional_decoder_, encoder_out_, aborted,
                      own, rescoring_score, call>>

\* --------------------------------------------------- ComputeAttentionScore
\* accessor[j][v].  The accessor does no bounds check: a read outside the
\* tensor is undefined behaviour, which AttentionRescoring resolves (InBounds);
\* the 0 here is never the value of a score that is kept.
Accessor(prob, j, v) ==
    IF j \in DOMAIN prob /\ v \in DOMAIN prob[j] THEN prob[j][v] ELSE 0

RECURSIVE ScoreLoop(_, _, _, _)
ScoreLoop(prob, hyp, j, score) ==
    IF j >= Len(hyp) THEN score
    ELSE ScoreLoop(prob, hyp, j + 1, score + Accessor(prob, j, hyp[j + 1]))

\* faulty variant: the eos term is left out
ComputeAttentionScoreNoEos(prob, hyp, eos) == ScoreLoop(prob, hyp, 0, 0)

ComputeAttentionScore(prob, hyp, eos) ==
    ScoreLoop(prob, hyp, 0, 0) + Accessor(prob, Len(hyp), eos)

\* every read of ComputeAttentionScore(prob, hyp, eos) is inside prob
InBounds(prob, hyp, eos) ==
    /\ \A j \in 0..Len(hyp) : j \in DOMAIN prob
    /\ \A j \in 0..(Len(hyp) - 1) : hyp[j + 1] \in DOMAIN prob[j]
    /\ eos \in DOMAIN prob[Len(hyp)]

\* the rows of prob that ComputeAttentionScore(prob, hyp, ...) reads
RowsRead(hyp) == 0..Len(hyp)

\* ------------------------------------------------------ AttentionRescoring
\* rescoring_score->resize(num_hyps, 0.0f)
Resize(vec, n) == [i \in 1..n |-> IF i <= Len(vec) THEN vec[i] ELSE 0]

RECURSIVE MaxLenLoop(_, _, _, _)
MaxLenLoop(hyps, i, max_hyps_len, extra) ==
    IF i >= Len(hyps) THEN max_hyps_len
    ELSE MaxLenLoop(hyps, i + 1, Max(Len(hyps[i + 1]) + extra, max_hyps_len), extra)

\* faulty variant: the column of sos is not counted
MaxHypsLenNoSos(hyps) == MaxLenLoop(hyps, 0, 0, 0)

\* lines 181-186: max over the hypotheses of hyp.size() + 1
MaxHypsLen(hyps) == MaxLenLoop(hyps, 0, 0, 1)

\* lines 180-186: hyps_length[i] = hyps[i].size() + 1
HypsLength(hyps) == [i \in 0..(Len(hyps) - 1) |-> Len(hyps[i + 1]) + 1]

RECURSIVE FillRow(_, _, _, _, _)
FillRow(t, i, hyp, j, shift) ==
    IF j >= Len(hyp) THEN t
    ELSE FillRow(SetAt(t, i, j + shift, hyp[j + 1]), i, hyp, j + 1, shift)

RECURSIVE FillRows(_, _, _, _)
FillRows(t, hyps, i, shift) ==
    IF i >= Len(hyps) THEN t
    ELSE FillRows(FillRow(SetAt(t, i, 0, sos_), i, hyps[i + 1], 0, shift),
                  hyps, i + 1, shift)

\* faulty variant: hyp[j] written to column j, over sos
HypsTensorNoShift(hyps, max_hyps_len) ==
    FillRows(Zeros(Len(hyps), max_hyps_len), hyps, 0, 0)

\* lines 187-195: zeros, then sos_ at column 0 and hyp[j] at column j + 1
HypsTensor(hyps, max_hyps_len) ==
    FillRows(Zeros(Len(hyps), max_hyps_len), hyps, 0, 1)

\* faulty variant: the whole batch is passed to the decoder
EncoderOutWhole(t, batch_index) == t

\* line 199: encoder_out_.index({Slice(batch_index, batch_index + 1)})
EncoderOutSlice(t, batch_index) == Slice(t, batch_index, batch_index + 1)

\* faulty variant: the hypothesis is not reversed
ReverseCopyForgotten(hyp) == hyp

\* lines 232-233: std::reverse_copy
ReverseCopy(hyp) == [j \in 1..Len(hyp) |-> hyp[Len(hyp) + 1 - j]]

\* line 228
R2LApplicable(bidir, reverse_weight) == bidir /\ reverse_weight > 0

\* faulty variant: without an R2L score the L2R score is returned as it is
CombineScoreUnscaled(score, r_score, reverse_weight) ==
    IF r_score = 0 THEN score * WeightDen
    ELSE score * (WeightDen - reverse_weight) + r_score * reverse_weight

\* line 240: score * (1 - reverse_weight) + r_score * reverse_weight
CombineScore(score, r_score, reverse_weight) ==
    score * (WeightDen - reverse_weight) + r_score * reverse_weight

\* faulty variant: += instead of =
StoreScoreAccumulate(old, new) == old + new

\* line 239: (*rescoring_score)[i] = ...
StoreScore(old, new) == new

\* variant: the member is reset once the scores are computed
MemberReleased(t) == NoTensor

\* AttentionRescoring reads the member through index() and never assigns it.
MemberAfterRescoring(t) == t

NoCall == [done |-> FALSE]

\* What the call record holds when the decoder was not reached.
NotInvoked ==
    [invoked |-> FALSE, threw |-> FALSE, hyps_tensor |-> NoTensor,
     hyps_length |-> NoTensor, encoder_out |-> NoTensor, max_hyps_len |-> 0,
     probs |-> NoTensor, r_probs |-> NoTensor, rows_read |-> {}, r_rows_read |-> {},
     r_on |-> FALSE, score |-> <<>>, r_score |-> <<>>]

\* The arguments of a call, as the call record keeps them.
Args(s, hyps, batch_index, reverse_weight, vec) ==
    [done |-> TRUE, s |-> s, hyps |-> hyps, batch_index |-> batch_index,
     reverse_weight |-> reverse_weight, prev |-> vec]

\* Lines 165-242.  Each local of the function is bound once, by \E over the
\* singleton of its value.
AttentionRescoring(s, hyps, batch_index, reverse_weight, vec) ==
    /\ ~aborted
    /\ pc[s] = "idle"
    /\ \E num_hyps \in {Len(hyps)} :
       \E resized \in {Resize(vec, num_hyps)},
          args \in {Args(s, hyps, batch_index, reverse_weight, vec)} :
        IF num_hyps = 0
        THEN \* lines 174-176
             /\ rescoring_score' = [rescoring_score EXCEPT ![s] = resized]
             /\ call' = args @@ NotInvoked
             /\ UNCHANGED aborted
        ELSE
        \* Step 1, lines 179-195
        \E hyps_length \in {HypsLength(hyps)}, max_hyps_len \in {MaxHypsLen(hyps)} :
        \E hyps_tensor \in {HypsTensor(hyps, max_hyps_len)} :
        \E prepared \in {[NotInvoked EXCEPT !.hyps_tensor = hyps_tensor,
                                            !.hyps_length = hyps_length,
                                            !.max_hyps_len = max_hyps_len]} :
        \* Step 2, lines 197-209.  index() on an undefined tensor throws; so
        \* does the decoder on a slice that is not one row.
        \E encoder_out \in {EncoderOutSlice(encoder_out_, batch_index)} :
        IF encoder_out_ = NoTensor \/ ~DecoderAccepts(encoder_out)
        THEN /\ rescoring_score' = [rescoring_score EXCEPT ![s] = resized]
             /\ call' = args @@ [prepared EXCEPT !.invoked = (encoder_out_ # NoTensor),
                                                 !.threw = TRUE,
                                                 !.encoder_out = encoder_out]
             /\ UNCHANGED aborted
        ELSE
        \E outputs \in {ForwardAttentionDecoder(hyps_tensor, hyps_length, encoder_out,
                                                reverse_weight, is_bidirectional_decoder_)} :
        \E probs \in {outputs[1]}, r_probs \in {outputs[2]},
           r_on \in {R2LApplicable(is_bidirectional_decoder_, reverse_weight)} :
        \* lines 217-218 and 230-231
        IF ~(/\ Size0(probs) = num_hyps
             /\ Size1(probs) = max_hyps_len
             /\ r_on => /\ Size0(r_probs) = num_hyps
                        /\ Size1(r_probs) = max_hyps_len)
        THEN /\ aborted' = TRUE
             /\ UNCHANGED <<rescoring_score, call>>
        ELSE
        \* Step 3, lines 221-241
        \E score \in {[i \in 1..num_hyps |->
                        ComputeAttentionScore(probs[i - 1], hyps[i], eos_)]},
           r_score \in {[i \in 1..num_hyps |->
                        IF r_on
                        THEN ComputeAttentionScore(r_probs[i - 1], ReverseCopy(hyps[i]), eos_)
                        ELSE 0]} :
        /\ IF \A i \in 1..num_hyps :
                /\ InBounds(probs[i - 1], hyps[i], eos_)
                /\ r_on => InBounds(r_probs[i - 1], ReverseCopy(hyps[i]), eos_)
           THEN rescoring_score' = [rescoring_score EXCEPT ![s] =
                    [i \in 1..num_hyps |->
                        StoreScore(resized[i],
                                   CombineScore(score[i], r_score[i], reverse_weight))]]
           ELSE \* a read outside a tensor: any scores
                \E junk \in [1..num_hyps -> Garbage] :
                    rescoring_score' = [rescoring_score EXCEPT ![s] = junk]
        /\ call' = args @@
                [prepared EXCEPT
                    !.invoked = TRUE,
                    !.encoder_out = encoder_out,
                    !.probs = probs,
                    !.r_probs = r_probs,
                    !.r_on = r_on,
                    !.rows_read = UNION {RowsRead(hyps[i]) : i \in 1..num_hyps},
                    !.r_rows_read = IF r_on
                                    THEN UNION {RowsRead(ReverseCopy(hyps[i])) :
                                                    i \in 1..num_hyps}
                                    ELSE {},
                    !.score = score,
                    !.r_score = r_score]
        /\ UNCHANGED aborted
    /\ encoder_out_' = MemberAfterRescoring(encoder_out_)
    /\ UNCHANGED <<encoder_arity, is_bidirectional_decoder_, pc, own, out_prob>>

\* ------------------------------------------------------------------ callers
Init ==
    /\ encoder_arity \in {2, 3}
    /\ is_bidirectional_decoder_ \in BOOLEAN
    /\ encoder_out_ = NoTensor
    /\ aborted = FALSE
    /\ pc = [s \in Sessions |-> "idle"]
    /\ own = [s \in Sessions |-> [feats |-> 0, rows |-> 0, next |-> 0]]
    /\ out_prob = [s \in Sessions |-> <<>>]
    /\ rescoring_score = [s \in Sessions |-> <<>>]
    /\ call = NoCall

\* A session forwards a batch of 1..MaxBatch utterances.
Forward(s) ==
    \E f \in Feats, batch_size \in 1..MaxBatch : ForwardEncoderFunc_Encode(s, f, batch_size)

ForwardCtc(s) == ForwardEncoderFunc_Ctc(s)

\* A session rescores the N-best list of the next utterance of its batch.
Rescore(s, lists, weights, vecs) ==
    /\ ~call.done
    /\ own[s].next < own[s].rows
    /\ \E hyps \in lists, reverse_weight \in weights, vec \in vecs :
            AttentionRescoring(s, hyps, own[s].next, reverse_weight, vec)

\* The same call again, with the score vector the previous call filled.
RescoreAgain(s) ==
    /\ call.done
    /\ call.s = s
    /\ AttentionRescoring(s, call.hyps, call.batch_index, call.reverse_weight,
                          rescoring_score[s])

\* The caller moves the scores out of the vector and goes on to the next
\* utterance of the batch.
TakeScores(s) ==
    /\ ~aborted
    /\ call.done
    /\ call.s = s
    /\ call' = NoCall
    /\ rescoring_score' = [rescoring_score EXCEPT ![s] = <<>>]
    /\ own' = [own EXCEPT ![s].next = call.batch_index + 1]
    /\ UNCHANGED <<encoder_arity, is_bidirectional_decoder_, encoder_out_, aborted, pc,
                   out_prob>>

\* One decoder thread drives the executor (each decoder holds its own Copy()).
Caller == 1

Next ==
    \/ Forward(Caller)
    \/ ForwardCtc(Caller)
    \/ Rescore(Caller, NBestSet, ReverseWeights, PrevScores)
    \/ RescoreAgain(Caller)
    \/ TakeScores(Caller)

Spec == Init /\ [][Next]_vars

\* Several sessions share one executor instance and interleave their calls.
SharedNBest == {<<<<1, 2>>, <<>>>>}

NextShared ==
    \E s \in Sessions :
        \/ Forward(s)
        \/ ForwardCtc(s)
        \/ Rescore(s, SharedNBest, {0}, {<<>>})
        \/ RescoreAgain(s)
        \/ TakeScores(s)

SpecShared == Init /\ [][NextShared]_vars

\* ------------------------------------------------------------------ claims
\* The last AttentionRescoring call ran the decoder and computed its scores.
Scored == call.done /\ call.invoked /\ ~call.threw

\* the claims' sum: logp[0][t1] + ... + logp[K-1][tK] + logp[K][eos]
RECURSIVE SumOfLogp(_, _, _)
SumOfLogp(logp, h, k) ==
    IF k = 0 THEN 0 ELSE SumOfLogp(logp, h, k - 1) + logp[k - 1][h[k]]
AttentionScore(logp, h) == SumOfLogp(logp, h, Len(h)) + logp[Len(h)][eos_]

RECURSIVE Reversed(_)
Reversed(h) == IF h = <<>> THEN <<>> ELSE Append(Reversed(Tail(h)), Head(h))

Longest(hyps) ==
    CHOOSE m \in {Len(hyps[i]) : i \in DOMAIN hyps} :
        \A i \in DOMAIN hyps : Len(hyps[i]) <= m

\* C1: ComputeAttentionScore returns, for a hypothesis [t1..tK], the sum of
\* logp[j][t_{j+1}] over j in 0..K-1 plus logp[K][eos]; for the empty
\* hypothesis it returns logp[0][eos].
C1_AttentionScoreIsSum ==
    Scored =>
        \A i \in DOMAIN call.hyps :
            /\ call.score[i] = AttentionScore(call.probs[i - 1], call.hyps[i])
            /\ call.hyps[i] = <<>> => call.score[i] = call.probs[i - 1][0][eos_]

C1_Witness ==
    /\ Scored
    /\ \E i \in DOMAIN call.hyps : call.hyps[i] = <<>>
    /\ \E i \in DOMAIN call.hyps : Len(call.hyps[i]) >= 2

\* C2: with a bidirectional decoder and reverse_weight > 0 every hypothesis i
\* gets (1 - reverse_weight) * score_L2R(h_i) + reverse_weight *
\* score_R2L(reverse(h_i)), score_R2L being the same sum over row i of the
\* R2L log-probabilities (scores are kept multiplied by WeightDen).
C2_CombinedScore ==
    (Scored /\ is_bidirectional_decoder_ /\ call.reverse_weight > 0) =>
        \A i \in DOMAIN call.hyps :
            rescoring_score[call.s][i] =
                (WeightDen - call.reverse_weight)
                    * AttentionScore(call.probs[i - 1], call.hyps[i])
                + call.reverse_weight
                    * AttentionScore(call.r_probs[i - 1], Reversed(call.hyps[i]))

C2_Witness ==
    /\ Scored
    /\ is_bidirectional_decoder_
    /\ call.reverse_weight > 0
    /\ call.reverse_weight < WeightDen
    /\ \E i \in DOMAIN call.hyps :
        AttentionScore(call.r_probs[i - 1], Reversed(call.hyps[i]))
            # AttentionScore(call.r_probs[i - 1], call.hyps[i])

\* C3 (as claimed): every AttentionRescoring call that scores does so against
\* the encoder output of the calling session's own batch.
C3_ScoresAgainstOwnBatch ==
    Scored => call.encoder_out[0] = EncoderRow(own[call.s].feats, call.batch_index)

\* C4 (as claimed): the decoder invocation of batched rescoring covers all
\* the B utterances of the batch.
C4_OneInvocationCoversBatch ==
    (call.done /\ call.invoked) => Size0(call.encoder_out) = own[call.s].rows

\* C4 (amended): an AttentionRescoring call invokes the decoder exactly when
\* its N-best list is not empty, and that invocation covers one utterance:
\* the one encoder row batch_index and the hypotheses of this call.
C4_OneInvocationPerUtterance ==
    call.done =>
        /\ call.invoked <=> Len(call.hyps) > 0
        /\ call.invoked =>
            /\ Size0(call.encoder_out) = 1
            /\ call.encoder_out[0] = EncoderRow(own[call.s].feats, call.batch_index)
            /\ Size0(call.hyps_tensor) = Len(call.hyps)

C4_Witness ==
    /\ Scored
    /\ own[call.s].rows >= 2
    /\ call.batch_index = own[call.s].rows - 1

\* C5 (as claimed): with a model whose batched encoder op returns the 3-tuple
\* (enc_out, enc_lens, ctc_logp), ForwardEncoderFunc fails no assertion.
C5_ThreeTupleAccepted ==
    encoder_arity = 3 => ~aborted

\* C6: with reverse_weight = 0 a call leaves exactly the L2R score of every
\* hypothesis in the score vector, whatever the vector held before, and the
\* same call again, on the vector it filled, leaves the same scores.
C6_Idempotent ==
    [][(call'.done /\ call'.reverse_weight = 0 /\ ~call'.threw) =>
        /\ Len(rescoring_score'[call'.s]) = Len(call'.hyps)
        /\ \A i \in DOMAIN call'.hyps :
            rescoring_score'[call'.s][i] =
                WeightDen * AttentionScore(call'.probs[i - 1], call'.hyps[i])
        /\ call.done => rescoring_score'[call'.s] = rescoring_score[call.s]]_vars

C6_Witness ==
    /\ Scored
    /\ call.reverse_weight = 0
    /\ Len(call.hyps) >= 2
    /\ call.prev = rescoring_score[call.s]

C8_PaddedHyps ==
    (call.done /\ call.invoked) =>
        /\ DOMAIN call.hyps_tensor = 0..(Len(call.hyps) - 1)
        /\ DOMAIN call.hyps_length = 0..(Len(call.hyps) - 1)
        /\ \A i \in DOMAIN call.hyps :
            LET h == call.hyps[i]
                row == call.hyps_tensor[i - 1]
            IN /\ DOMAIN row = 0..Longest(call.hyps)
               /\ row[0] = sos_
               /\ \A j \in 1..Len(h) : row[j] = h[j]
               /\ \A j \in (Len(h) + 1)..Longest(call.hyps) : row[j] = 0
               /\ call.hyps_length[i - 1] = Len(h) + 1

C8_Witness ==
    /\ call.done
    /\ call.invoked
    /\ \E i, k \in DOMAIN call.hyps :
        /\ Len(call.hyps[i]) = 0
        /\ Len(call.hyps[k]) >= 2
        /\ call.hyps[k][1] # call.hyps[k][2]

\* C9: when the R2L pass is not applicable (no bidirectional decoder, or
\* reverse_weight = 0) the R2L score is 0 and every hypothesis gets
\* (1 - reverse_weight) * score_L2R: with reverse_weight > 0 the scaled
\* score, not the L2R score itself.
C9_NoR2L ==
    (Scored /\ ~(is_bidirectional_decoder_ /\ call.reverse_weight > 0)) =>
        \A i \in DOMAIN call.hyps :
            /\ call.r_score[i] = 0
            /\ rescoring_score[call.s][i] =
                (WeightDen - call.reverse_weight)
                    * AttentionScore(call.probs[i - 1], call.hyps[i])

C9_Witness ==
    /\ Scored
    /\ ~is_bidirectional_decoder_
    /\ call.reverse_weight > 0
    /\ call.reverse_weight < WeightDen
    /\ \E i \in DOMAIN call.hyps :
        rescoring_score[call.s][i] # WeightDen * call.score[i]

\* C10: every row ComputeAttentionScore reads of the L2R or R2L matrix of a
\* hypothesis is below max_hyps_len, the row count the shape checks found;
\* and for an empty N-best list the decoder is not invoked and the score
\* vector comes back empty.
C10_RowsInBounds ==
    call.done =>
        /\ Scored =>
            /\ \A i \in DOMAIN call.probs : DOMAIN call.probs[i] = 0..(call.max_hyps_len - 1)
            /\ call.rows_read \subseteq 0..(call.max_hyps_len - 1)
            /\ call.r_rows_read \subseteq 0..(call.max_hyps_len - 1)
            /\ call.r_on =>
                \A i \in DOMAIN call.r_probs :
                    DOMAIN call.r_probs[i] = 0..(call.max_hyps_len - 1)
        /\ Len(call.hyps) = 0 => ~call.invoked /\ rescoring_score[call.s] = <<>>

C10_Witness ==
    /\ Scored
    /\ call.r_on
    /\ (call.max_hyps_len - 1) \in call.rows_read
    /\ (call.max_hyps_len - 1) \in call.r_rows_read
    /\ call.max_hyps_len >= 3

====
